---- MODULE Spec2Model ----
(***************************************************************************)
(* disparity-image-gui.py: the MainWindow of the disparity image GUI.      *)
(* State: the four stored parameters, the four sliders, the chosen files,  *)
(* the labels and the displayed pixmap.  One action per Qt slot            *)
(* (checkAction*, snapSlider*, findLFile, findRFile), each including the   *)
(* drawDispImg call the slot ends with.                                     *)
(***************************************************************************)
EXTENDS Integers, Sequences, FiniteSets, TLC

VARIABLES
  disparities,        \* self.disparities
  kernel,             \* self.kernel
  opacity,            \* self.opacity
  scalingFactor,      \* self.scalingFactor
  files,              \* self.files: Photo -> path, a dict that only grows
  sliderDisparities,  \* self.sliderDisparities.value()
  sliderKernel,       \* self.sliderKernel.value()
  sliderOpacity,      \* self.sliderOpacity.value()
  sliderScaling,      \* self.sliderScaling.value()
  sliderDown,         \* the slider whose handle the mouse holds, or None
  dispImg,            \* self.dispImg's pixmap, None until the first render
  dispVal,            \* label texts
  kernelVal,
  opacityVal,
  scalingVal,
  leftFileName,
  rightFileName,
  crashed,            \* an exception left a slot: PyQt5 aborts the process
  pipeline,           \* NoImages, Rendered or Warned: where drawDispImg last ended
  last,               \* what the last slot did (its render attempt, if any)
  events              \* number of user events so far

params  == <<disparities, kernel, opacity, scalingFactor>>
sliders == <<sliderDisparities, sliderKernel, sliderOpacity, sliderScaling>>
labels  == <<dispVal, kernelVal, opacityVal, scalingVal>>
names   == <<leftFileName, rightFileName>>
vars    == <<params, sliders, labels, names, files, sliderDown, dispImg,
             crashed, pipeline, last, events>>

-----------------------------------------------------------------------------
(* Bounds of the model *)

MaxEvents == 4

-----------------------------------------------------------------------------
(* enums, lines 62-86 *)

KernelNOMINAL == 2
KernelMIN == 5
KernelMAX == 255
DisparitiesNOMINAL == 16
DisparitiesMAX == 240
OpacityNOMINAL == 2
OpacityMIN == 0
OpacityMAX == 100
ScalingNOMINAL == 2
ScalingMIN == 10
ScalingMAX == 100
PhotoLEFT == 0
PhotoRIGHT == 1

literals ==
  [ DISPARITIES_LIT      |-> "Disparities: ",
    KERNEL_LIT           |-> "Kernel Size: ",
    OPACITY_LIT          |-> "Opacity: ",
    NO_IMG_LIT           |-> "No image chosen",
    SCALING_LIT          |-> "Scale Factor: ",
    IMG_NO_UPDATE_LIT    |-> "IMAGE NOT UPDATED",
    WARN_KERNEL_SIZE_LIT |->
      "Kernel size exceeds image Height or Width. Reduce the kernel size." ]

None == <<>>
Some(x) == <<x>>

-----------------------------------------------------------------------------
(* Python floats (IEEE 754 binary64): a float is man * 2^exp with man a     *)
(* sequence of MantissaBits bits, most significant first.  op.truediv and   *)
(* op.mul round to nearest, ties to even; int() truncates.                  *)

MantissaBits == 53

RECURSIVE Normalise(_, _, _)
Normalise(a, b, k) ==
  IF a >= b THEN [num |-> a, k |-> k] ELSE Normalise(2 * a, b, k + 1)

RECURSIVE LongDiv(_, _, _, _)
LongDiv(r, b, n, acc) ==
  IF n = 0 THEN [bits |-> acc, rem |-> r]
  ELSE LongDiv((2 * r) % b, b, n - 1, Append(acc, (2 * r) \div b))

RECURSIVE Increment(_, _)
Increment(bits, i) ==
  IF i = 0 THEN bits
  ELSE IF bits[i] = 0 THEN [bits EXCEPT ![i] = 1]
       ELSE Increment([bits EXCEPT ![i] = 0], i - 1)

AllOnes(bits) == \A i \in 1..Len(bits) : bits[i] = 1

RoundNearestEven(bits, exp, up) ==
  IF ~up THEN [man |-> bits, exp |-> exp]
  ELSE IF AllOnes(bits)
       THEN [man |-> <<1>> \o [i \in 1..(Len(bits) - 1) |-> 0], exp |-> exp + 1]
       ELSE [man |-> Increment(bits, Len(bits)), exp |-> exp]

FloatZero == [man |-> [i \in 1..MantissaBits |-> 0], exp |-> 0]

\* op.truediv(a, b) for integers 0 <= a <= b, b > 0
truediv(a, b) ==
  IF a = 0 THEN FloatZero
  ELSE LET nz  == Normalise(a, b, 0)
           q   == LongDiv(nz.num - b, b, MantissaBits - 1, <<1>>)
           up  == \/ 2 * q.rem > b
                  \/ 2 * q.rem = b /\ q.bits[MantissaBits] = 1
       IN  RoundNearestEven(q.bits, 0 - nz.k - (MantissaBits - 1), up)

RECURSIVE IntBits(_)
IntBits(n) == IF n = 0 THEN <<>> ELSE IntBits(n \div 2) \o <<n % 2>>

RECURSIVE MulBits(_, _, _, _, _)
MulBits(bits, i, w, carry, acc) ==
  IF i = 0 THEN IntBits(carry) \o acc
  ELSE MulBits(bits, i - 1, w, (bits[i] * w + carry) \div 2,
               <<(bits[i] * w + carry) % 2>> \o acc)

\* op.mul(w, f) for an integer w > 0 and a float f
mul(w, f) ==
  IF f = FloatZero THEN FloatZero
  ELSE LET p      == MulBits(f.man, Len(f.man), w, 0, <<>>)
           d      == Len(p) - MantissaBits
           kept   == SubSeq(p, 1, MantissaBits)
           guard  == IF d > 0 THEN p[MantissaBits + 1] ELSE 0
           sticky == \E i \in (MantissaBits + 2)..Len(p) : p[i] = 1
           up     == guard = 1 /\ (sticky \/ kept[MantissaBits] = 1)
       IN  RoundNearestEven(kept, f.exp + d, up)

RECURSIVE BitsToInt(_, _, _)
BitsToInt(bits, i, acc) ==
  IF i > Len(bits) THEN acc ELSE BitsToInt(bits, i + 1, 2 * acc + bits[i])

\* int(f) for a float f >= 0 below 2^31
int(f) ==
  IF 0 - f.exp >= Len(f.man) THEN 0
  ELSE BitsToInt(SubSeq(f.man, 1, Len(f.man) + f.exp), 1, 0)

-----------------------------------------------------------------------------
(* Qt's QAbstractSlider, as far as the slots use it.  Tracking is on (the   *)
(* default), so value() and sliderPosition() agree between slots.           *)

Bound(lo, v, hi) == IF v < lo THEN lo ELSE IF v > hi THEN hi ELSE v

\* the four actions the checkAction* slots react to
StepActions ==
  { "SliderSingleStepAdd", "SliderSingleStepSub",
    "SliderPageStepAdd", "SliderPageStepSub" }

\* a single step of one unit of the range, whatever setSingleStep has set
sliderPositionByOne(value, action, single, page, lo, hi) ==
  Bound(lo,
        CASE action = "SliderSingleStepAdd" -> value + 1
          [] action = "SliderSingleStepSub" -> value - 1
          [] action = "SliderPageStepAdd"   -> value + page
          [] action = "SliderPageStepSub"   -> value - page,
        hi)

\* QAbstractSlider.triggerAction moves the position before actionTriggered
sliderPosition(value, action, single, page, lo, hi) ==
  Bound(lo,
        CASE action = "SliderSingleStepAdd" -> value + single
          [] action = "SliderSingleStepSub" -> value - single
          [] action = "SliderPageStepAdd"   -> value + page
          [] action = "SliderPageStepSub"   -> value - page,
        hi)

DisparitiesPageStep == DisparitiesNOMINAL * 3
KernelPageStep == KernelNOMINAL * 10
OpacityPageStep == OpacityNOMINAL * 5
ScalingPageStep == ScalingNOMINAL * 5

-----------------------------------------------------------------------------
(* The image files the user can pick, and cv.imread on each: a raster, or   *)
(* None for a file OpenCV cannot decode.                                    *)

Paths == { "tiny.png", "small.png", "left.png", "right.png", "corrupt.png" }

imread(path) ==
  CASE path = "tiny.png"    -> Some([width |-> 9,   height |-> 9])
    [] path = "small.png"   -> Some([width |-> 100, height |-> 100])
    [] path = "left.png"    -> Some([width |-> 640, height |-> 480])
    [] path = "right.png"   -> Some([width |-> 800, height |-> 600])
    [] path = "corrupt.png" -> None

-----------------------------------------------------------------------------
(* drawDispImg, lines 277-317 *)

\* int(op.mul(extent, op.truediv(self.scalingFactor, 100))), lines 286-290
Scale(extent, sf) == int(mul(extent, truediv(sf, 100)))

\* Scale on every width and height imread can return, computed once
Extents ==
  UNION { {imread(p)[1].width, imread(p)[1].height} :
          p \in {q \in Paths : imread(q) # None} }

ScaleTable ==
  [extent \in Extents, sf \in ScalingMIN..ScalingMAX |-> Scale(extent, sf)]

\* the target size taken from the Scale Factor slider, not the stored factor
TargetSizeOfSlider(L, R, sf) ==
  IF L.width < R.width
  THEN [ width  |-> ScaleTable[L.width, sliderScaling],
         height |-> ScaleTable[L.height, sliderScaling] ]
  ELSE [ width  |-> ScaleTable[R.width, sliderScaling],
         height |-> ScaleTable[R.height, sliderScaling] ]

\* lines 285-290: the raster with the smaller width, scaled by scalingFactor/100
TargetSize(L, R, sf) ==
  IF L.width < R.width
  THEN [width |-> ScaleTable[L.width, sf], height |-> ScaleTable[L.height, sf]]
  ELSE [width |-> ScaleTable[R.width, sf], height |-> ScaleTable[R.height, sf]]

\* the test of line 296 alone
KernelExceedsWidthOnly(kval, dim) == kval > dim.width

\* lines 295-296: the test that guards the stereo matcher
KernelExceeds(kval, dim) == kval > dim.height \/ kval > dim.width

\* cv.resize raises cv2.error on an empty target size
ResizeFails(dim) == dim.width <= 0 \/ dim.height <= 0

\* cv.StereoBM raises cv2.error unless its block size and disparities fit
StereoBMFails(numDisparities, blockSize, dim) ==
  \/ blockSize % 2 = 0
  \/ blockSize < 5
  \/ blockSize > 255
  \/ blockSize > dim.width
  \/ blockSize > dim.height
  \/ numDisparities <= 0
  \/ numDisparities % 16 # 0

\* op.truediv(self.opacity, Opacity.MAX) on every slider value, computed once
Fraction == [value \in OpacityMIN..OpacityMAX |-> truediv(value, OpacityMAX)]

NoAttempt ==
  [ result |-> "none", error |-> "", loaded |-> FALSE, resized |-> FALSE,
    dim |-> None, kchk |-> None, engine |-> None, warning |-> None,
    pixmap |-> None ]

Attempt(result, error, loaded, resized, dim, kchk, engine, warning, pixmap) ==
  [ result |-> result, error |-> error, loaded |-> loaded,
    resized |-> resized, dim |-> dim, kchk |-> kchk, engine |-> engine,
    warning |-> warning, pixmap |-> pixmap ]

\* lines 292-293: cv.resize(raster, dim) returns a raster of size dim
resize(raster, dim) == [width |-> dim.width, height |-> dim.height]

\* lines 300-301: cv.StereoBM_create(self.disparities, self.kernel).compute
StereoBM(r_cvImgL, r_cvImgR, disp, kern) ==
  [ left |-> r_cvImgL, right |-> r_cvImgR,
    numDisparities |-> disp, blockSize |-> kern ]

\* numpy's (height, width) order taken for (width, height)
OverlayTransposed(fs, dim, disp, kern, opac) ==
  [ width  |-> dim.height,
    height |-> dim.width,
    left   |-> fs[PhotoLEFT],
    right  |-> fs[PhotoRIGHT],
    numDisparities |-> disp,
    blockSize |-> kern,
    alpha  |-> Fraction[opac] ]

\* lines 302-317: the left raster painted over the disparity raster
Overlay(fs, dim, disp, kern, opac) ==
  [ width  |-> dim.width,
    height |-> dim.height,
    left   |-> fs[PhotoLEFT],
    right  |-> fs[PhotoRIGHT],
    numDisparities |-> disp,
    blockSize |-> kern,
    alpha  |-> Fraction[opac] ]

\* lines 291-317, with the target size known
drawScaled(fs, disp, kern, opac, kval, dim, cvImgL, cvImgR) ==
  IF ResizeFails(dim)
  THEN Attempt("crashed", "cv2.error", TRUE, FALSE, Some(dim), None, None,
               None, None)
  ELSE IF KernelExceeds(kval, dim)
  THEN Attempt("warned", "", TRUE, TRUE, Some(dim), Some(kval), None,
               Some([ title |-> literals.IMG_NO_UPDATE_LIT,
                      msg   |-> literals.WARN_KERNEL_SIZE_LIT ]),
               None)
  ELSE IF StereoBMFails(disp, kern, dim)
  THEN Attempt("crashed", "cv2.error", TRUE, TRUE, Some(dim), Some(kval),
               Some(StereoBM(resize(cvImgL, dim), resize(cvImgR, dim), disp,
                             kern)), None, None)
  ELSE Attempt("rendered", "", TRUE, TRUE, Some(dim), Some(kval),
               Some(StereoBM(resize(cvImgL, dim), resize(cvImgR, dim), disp,
                             kern)), None,
               Some(Overlay(fs, dim, disp, kern, opac)))

\* lines 284-317, with both files read; .shape of None raises AttributeError
drawLoaded(fs, disp, kern, opac, sf, kval, cvImgL, cvImgR) ==
  IF cvImgL = None \/ cvImgR = None
  THEN Attempt("crashed", "AttributeError", TRUE, FALSE, None, None, None,
               None, None)
  ELSE drawScaled(fs, disp, kern, opac, kval,
                  TargetSize(cvImgL[1], cvImgR[1], sf), cvImgL[1], cvImgR[1])

\* the outcome of one call of drawDispImg; kval is self.sliderKernel.value()
drawDispImg(fs, disp, kern, opac, sf, kval) ==
  IF Cardinality(DOMAIN fs) < 2
  THEN [NoAttempt EXCEPT !.result = "skipped"]
  ELSE drawLoaded(fs, disp, kern, opac, sf, kval,
                  imread(fs[PhotoLEFT]), imread(fs[PhotoRIGHT]))

\* the pipeline states a slot passes through, from the one it starts in
Trace(result) ==
  IF result \in {"none", "skipped"} THEN <<pipeline>>
  ELSE (IF pipeline = "NoImages" THEN <<"NoImages", "Ready">> ELSE <<pipeline>>)
       \o (CASE result = "rendered" -> <<"Rendered">>
             [] result = "warned"   -> <<"Warned">>
             [] OTHER               -> <<>>)

\* the end of every slot that reaches self.drawDispImg(), att its outcome
Drawn(ev, target, raw, att) ==
  /\ dispImg' = IF att.result = "rendered" THEN att.pixmap ELSE dispImg
  /\ crashed' = (att.result = "crashed")
  /\ pipeline' = CASE att.result = "rendered" -> "Rendered"
                   [] att.result = "warned"   -> "Warned"
                   [] OTHER                   -> pipeline
  /\ last' = [ ev |-> ev, target |-> target, raw |-> raw, draws |-> 1,
               att |-> att, trace |-> Trace(att.result), before |-> dispImg ]

Draw(ev, target, raw, fs, disp, kern, opac, sf, kval) ==
  Drawn(ev, target, raw, drawDispImg(fs, disp, kern, opac, sf, kval))

\* a slot that returns without calling drawDispImg
NoDraw(ev, target, raw, error) ==
  /\ dispImg' = dispImg
  /\ crashed' = (error # "")
  /\ pipeline' = pipeline
  /\ last' = [ ev |-> ev, target |-> target, raw |-> raw, draws |-> 0,
               att |-> [NoAttempt EXCEPT !.error = error],
               trace |-> <<pipeline>>, before |-> dispImg ]

Label(lit, val) == [lit |-> lit, val |-> val]

-----------------------------------------------------------------------------
(* MainWindow.__init__, lines 106-206 *)

\* the fields and labels of a window with no file chosen and scaling factor sf
Fields(sf) ==
  /\ disparities = DisparitiesNOMINAL * 4
  /\ kernel = KernelMIN * 3
  /\ opacity = OpacityMAX \div 2          \* op.truediv gives the float 50.0
  /\ scalingFactor = sf
  /\ files = <<>>
  /\ dispImg = None
  /\ leftFileName = literals.NO_IMG_LIT
  /\ rightFileName = literals.NO_IMG_LIT
  /\ dispVal = Label(literals.DISPARITIES_LIT, disparities)
  /\ kernelVal = Label(literals.KERNEL_LIT, kernel)
  /\ opacityVal = Label(literals.OPACITY_LIT, Fraction[opacity])
  /\ scalingVal = Label(literals.SCALING_LIT, scalingFactor)
  /\ crashed = FALSE
  /\ pipeline = "NoImages"

\* lines 107-111 and 171-186: the fields and labels as constructed
Constructed == Fields(ScalingMIN * 1)

\* lines 131-169: setRange, then setSliderPosition to the stored value
SlidersConstructed ==
  /\ sliderDisparities = Bound(DisparitiesNOMINAL, disparities, DisparitiesMAX)
  /\ sliderKernel = Bound(KernelMIN, kernel, KernelMAX)
  /\ sliderOpacity = Bound(OpacityMIN, opacity, OpacityMAX)
  /\ sliderScaling = Bound(ScalingMIN, scalingFactor, ScalingMAX)

Init ==
  /\ Constructed
  /\ SlidersConstructed
  /\ sliderDown = None
  /\ last = [ ev |-> "init", target |-> "none", raw |-> 0, draws |-> 1,
              att |-> drawDispImg(files, disparities, kernel, opacity,
                                  scalingFactor, sliderKernel),
              trace |-> <<"NoImages">>, before |-> None ]
  /\ events = 0

\* every slot runs on the one GUI thread, while the process lives
Idle == ~crashed /\ events < MaxEvents

-----------------------------------------------------------------------------
(* DISPARITY slider, lines 209-222 *)

checkActionDisp(action) ==
  /\ Idle /\ sliderDown = None
  /\ LET pos == sliderPosition(sliderDisparities, action, DisparitiesNOMINAL,
                               DisparitiesPageStep, DisparitiesNOMINAL,
                               DisparitiesMAX)
     IN  /\ sliderDisparities' = pos
         /\ disparities' = pos
         /\ dispVal' = Label(literals.DISPARITIES_LIT, pos)
         /\ Draw("step", "disparities", sliderDisparities, files, pos, kernel,
                 opacity, scalingFactor, sliderKernel)
  /\ events' = events + 1
  /\ UNCHANGED <<kernel, opacity, scalingFactor, sliderKernel, sliderOpacity,
                 sliderScaling, kernelVal, opacityVal, scalingVal, names,
                 files, sliderDown>>

\* without the + 0.5: the multiple below
RoundDownToNominal(value, nominal) == (value \div nominal) * nominal

\* line 218: floor(value / NOMINAL + 0.5) * NOMINAL; the quotient by 16 and
\* the sum are exact in binary floating point
RoundToNominal(value, nominal) ==
  ((2 * value + nominal) \div (2 * nominal)) * nominal

\* lines 218-219: the value setSliderPosition leaves in the slider
snapDispValue(value) ==
  Bound(DisparitiesNOMINAL, RoundToNominal(value, DisparitiesNOMINAL),
        DisparitiesMAX)

snapSliderDisp ==
  /\ Idle /\ sliderDown \in {None, Some("disparities")}
  /\ LET val == snapDispValue(sliderDisparities)
     IN  /\ sliderDisparities' = val
         /\ disparities' = val
         /\ dispVal' = Label(literals.DISPARITIES_LIT, val)
         /\ Draw("snap", "disparities", sliderDisparities, files, val, kernel,
                 opacity, scalingFactor, sliderKernel)
  /\ sliderDown' = None
  /\ events' = events + 1
  /\ UNCHANGED <<kernel, opacity, scalingFactor, sliderKernel, sliderOpacity,
                 sliderScaling, kernelVal, opacityVal, scalingVal, names,
                 files>>

-----------------------------------------------------------------------------
(* KERNEL slider, lines 225-239 *)

checkActionKernel(action) ==
  /\ Idle /\ sliderDown = None
  /\ LET pos == sliderPosition(sliderKernel, action, KernelNOMINAL,
                               KernelPageStep, KernelMIN, KernelMAX)
     IN  /\ sliderKernel' = pos
         /\ kernel' = pos
         /\ kernelVal' = Label(literals.KERNEL_LIT, pos)
         /\ Draw("step", "kernel", sliderKernel, files, disparities, pos,
                 opacity, scalingFactor, pos)
  /\ events' = events + 1
  /\ UNCHANGED <<disparities, opacity, scalingFactor, sliderDisparities,
                 sliderOpacity, sliderScaling, dispVal, opacityVal,
                 scalingVal, names, files, sliderDown>>

\* the Opacity rule (op.ne) in place of the Kernel rule (op.eq)
snapKernelValueNe(value) ==
  IF value % KernelNOMINAL # 0
  THEN Bound(KernelMIN, value + 1, KernelMAX)
  ELSE value

\* the value left as dragged
snapKernelValueAsIs(value) == value

\* lines 234-236: an even value is moved up by one
snapKernelValue(value) ==
  IF value % KernelNOMINAL = 0
  THEN Bound(KernelMIN, value + 1, KernelMAX)
  ELSE value

snapSliderKernel ==
  /\ Idle /\ sliderDown \in {None, Some("kernel")}
  /\ LET val == snapKernelValue(sliderKernel)
     IN  /\ sliderKernel' = val
         /\ kernel' = val
         /\ kernelVal' = Label(literals.KERNEL_LIT, val)
         /\ Draw("snap", "kernel", sliderKernel, files, disparities, val,
                 opacity, scalingFactor, val)
  /\ sliderDown' = None
  /\ events' = events + 1
  /\ UNCHANGED <<disparities, opacity, scalingFactor, sliderDisparities,
                 sliderOpacity, sliderScaling, dispVal, opacityVal,
                 scalingVal, names, files>>

-----------------------------------------------------------------------------
(* OPACITY slider, lines 242-256 *)

checkActionOpacity(action) ==
  /\ Idle /\ sliderDown = None
  /\ LET pos == sliderPosition(sliderOpacity, action, OpacityNOMINAL,
                               OpacityPageStep, OpacityMIN, OpacityMAX)
     IN  /\ sliderOpacity' = pos
         /\ opacity' = pos
         /\ opacityVal' = Label(literals.OPACITY_LIT, Fraction[pos])
         /\ Draw("step", "opacity", sliderOpacity, files, disparities, kernel,
                 pos, scalingFactor, sliderKernel)
  /\ events' = events + 1
  /\ UNCHANGED <<disparities, kernel, scalingFactor, sliderDisparities,
                 sliderKernel, sliderScaling, dispVal, kernelVal, scalingVal,
                 names, files, sliderDown>>

\* the Kernel rule (op.eq) in place of the Opacity rule (op.ne)
snapOpacityValueEq(value) ==
  IF value % OpacityNOMINAL = 0
  THEN Bound(OpacityMIN, value + 1, OpacityMAX)
  ELSE value

\* the value moved up by one whatever its parity
snapOpacityValueNext(value) == Bound(OpacityMIN, value + 1, OpacityMAX)

\* lines 251-253: a value that is no multiple of NOMINAL is moved up by one
snapOpacityValue(value) ==
  IF value % OpacityNOMINAL # 0
  THEN Bound(OpacityMIN, value + 1, OpacityMAX)
  ELSE value

snapSliderOpacity ==
  /\ Idle /\ sliderDown \in {None, Some("opacity")}
  /\ LET val == snapOpacityValue(sliderOpacity)
     IN  /\ sliderOpacity' = val
         /\ opacity' = val
         /\ opacityVal' = Label(literals.OPACITY_LIT, Fraction[val])
         /\ Draw("snap", "opacity", sliderOpacity, files, disparities, kernel,
                 val, scalingFactor, sliderKernel)
  /\ sliderDown' = None
  /\ events' = events + 1
  /\ UNCHANGED <<disparities, kernel, scalingFactor, sliderDisparities,
                 sliderKernel, sliderScaling, dispVal, kernelVal, scalingVal,
                 names, files>>

-----------------------------------------------------------------------------
(* SCALING slider, lines 259-273 *)

checkActionScaling(action) ==
  /\ Idle /\ sliderDown = None
  /\ LET pos == sliderPosition(sliderScaling, action, ScalingNOMINAL,
                               ScalingPageStep, ScalingMIN, ScalingMAX)
     IN  /\ sliderScaling' = pos
         /\ scalingFactor' = pos
         /\ scalingVal' = Label(literals.SCALING_LIT, pos)
         /\ Draw("step", "scaling", sliderScaling, files, disparities, kernel,
                 opacity, pos, sliderKernel)
  /\ events' = events + 1
  /\ UNCHANGED <<disparities, kernel, opacity, sliderDisparities,
                 sliderKernel, sliderOpacity, dispVal, kernelVal, opacityVal,
                 names, files, sliderDown>>

\* lines 268-270
snapScalingValue(value) ==
  IF value % ScalingNOMINAL # 0
  THEN Bound(ScalingMIN, value + 1, ScalingMAX)
  ELSE value

\* line 272 calls str(self.scalingFactor, Scaling.MAX): str() takes an encoding
\* only for bytes, so the call raises TypeError after line 271 has stored the
\* value; the label is not set and line 273, self.drawDispImg(), is not reached
snapSliderScaling ==
  /\ Idle /\ sliderDown \in {None, Some("scaling")}
  /\ LET val == snapScalingValue(sliderScaling)
     IN  /\ sliderScaling' = val
         /\ scalingFactor' = val
         /\ scalingVal' = scalingVal
         /\ NoDraw("snap", "scaling", sliderScaling, "TypeError")
  /\ sliderDown' = None
  /\ events' = events + 1
  /\ UNCHANGED <<disparities, kernel, opacity, sliderDisparities,
                 sliderKernel, sliderOpacity, dispVal, kernelVal, opacityVal,
                 names, files>>

-----------------------------------------------------------------------------
(* Dragging a slider's handle.  Qt moves the slider and emits               *)
(* actionTriggered(SliderMove); the checkAction* slots (lines 210-211,      *)
(* 226-227, 243-244, 260-261) ignore that action, so only the slider        *)
(* changes until the handle is released and sliderReleased runs snapSlider*. *)

Sliders == {"disparities", "kernel", "opacity", "scaling"}

\* the positions the handle is dragged to
DragValues ==
  [ disparities |-> {24, 70, 233},
    kernel      |-> {10, 56, 255},
    opacity     |-> {0, 33, 99},
    scaling     |-> {11, 58} ]

SliderRange ==
  [ disparities |-> DisparitiesNOMINAL..DisparitiesMAX,
    kernel      |-> KernelMIN..KernelMAX,
    opacity     |-> OpacityMIN..OpacityMAX,
    scaling     |-> ScalingMIN..ScalingMAX ]

Dragged(s, raw) ==
  /\ sliderDisparities' = IF s = "disparities" THEN raw ELSE sliderDisparities
  /\ sliderKernel' = IF s = "kernel" THEN raw ELSE sliderKernel
  /\ sliderOpacity' = IF s = "opacity" THEN raw ELSE sliderOpacity
  /\ sliderScaling' = IF s = "scaling" THEN raw ELSE sliderScaling
  /\ sliderDown' = Some(s)

sliderMoved(s, raw) ==
  /\ Idle /\ sliderDown \in {None, Some(s)}
  /\ raw \in SliderRange[s]
  /\ Dragged(s, raw)
  /\ NoDraw("move", s, raw, "")
  /\ events' = events + 1
  /\ UNCHANGED <<params, labels, names, files>>

-----------------------------------------------------------------------------
(* File pickers, lines 320-336.  fileName is "" when the dialog is          *)
(* cancelled.                                                               *)

\* self.files = {photo: fileName}: the other slot is dropped
ChosenAlone(fs, photo, fileName) == [p \in {photo} |-> fileName]

\* dict.setdefault(photo, fileName): a filled slot keeps its path
ChosenKeepsFirst(fs, photo, fileName) ==
  [p \in DOMAIN fs \cup {photo} |-> IF p \in DOMAIN fs THEN fs[p] ELSE fileName]

\* lines 325-326 and 334-335: self.files[photo] = fileName
Chosen(fs, photo, fileName) ==
  [p \in DOMAIN fs \cup {photo} |-> IF p = photo THEN fileName ELSE fs[p]]

\* line 326 ahead of the test of line 324: the label takes the empty path
findLFileLabelFirst(fileName) ==
  /\ Idle /\ sliderDown = None
  /\ leftFileName' = fileName
  /\ IF fileName # ""
     THEN /\ files' = Chosen(files, PhotoLEFT, fileName)
          /\ Draw("file", "left", 0, files', disparities, kernel, opacity,
                  scalingFactor, sliderKernel)
     ELSE /\ UNCHANGED files
          /\ NoDraw("cancel", "left", 0, "")
  /\ events' = events + 1
  /\ UNCHANGED <<params, sliders, labels, rightFileName, sliderDown>>

findLFile(fileName) ==
  /\ Idle /\ sliderDown = None
  /\ IF fileName # ""
     THEN /\ files' = Chosen(files, PhotoLEFT, fileName)
          /\ leftFileName' = fileName
          /\ Draw("file", "left", 0, files', disparities, kernel, opacity,
                  scalingFactor, sliderKernel)
     ELSE /\ UNCHANGED <<files, leftFileName>>
          /\ NoDraw("cancel", "left", 0, "")
  /\ events' = events + 1
  /\ UNCHANGED <<params, sliders, labels, rightFileName, sliderDown>>

findRFile(fileName) ==
  /\ Idle /\ sliderDown = None
  /\ IF fileName # ""
     THEN /\ files' = Chosen(files, PhotoRIGHT, fileName)
          /\ rightFileName' = fileName
          /\ Draw("file", "right", 0, files', disparities, kernel, opacity,
                  scalingFactor, sliderKernel)
     ELSE /\ UNCHANGED <<files, rightFileName>>
          /\ NoDraw("cancel", "right", 0, "")
  /\ events' = events + 1
  /\ UNCHANGED <<params, sliders, labels, leftFileName, sliderDown>>

-----------------------------------------------------------------------------
(* The GUI: file choices, slider steps, and handles dragged and released.   *)

Next ==
  \/ \E action \in StepActions : checkActionDisp(action)
  \/ \E action \in StepActions : checkActionKernel(action)
  \/ \E action \in StepActions : checkActionOpacity(action)
  \/ \E action \in StepActions : checkActionScaling(action)
  \/ \E s \in Sliders : \E raw \in DragValues[s] : sliderMoved(s, raw)
  \/ snapSliderDisp
  \/ snapSliderKernel
  \/ snapSliderOpacity
  \/ snapSliderScaling
  \/ \E fileName \in Paths \cup {""} : findLFile(fileName)
  \/ \E fileName \in Paths \cup {""} : findRFile(fileName)

Spec == Init /\ [][Next]_vars

-----------------------------------------------------------------------------
(* The snap rules on every raw slider value: the window as constructed,     *)
(* one handle dragged anywhere in its range, then released.                 *)

InitSnap ==
  /\ Constructed
  /\ \E s \in Sliders : \E raw \in SliderRange[s] :
       /\ sliderDisparities = IF s = "disparities" THEN raw ELSE disparities
       /\ sliderKernel = IF s = "kernel" THEN raw ELSE kernel
       /\ sliderOpacity = IF s = "opacity" THEN raw ELSE opacity
       /\ sliderScaling = IF s = "scaling" THEN raw ELSE scalingFactor
       /\ sliderDown = Some(s)
       /\ last = [ ev |-> "move", target |-> s, raw |-> raw, draws |-> 0,
                   att |-> NoAttempt, trace |-> <<"NoImages">>,
                   before |-> None ]
  /\ events = 1

NextSnap ==
  \/ snapSliderDisp
  \/ snapSliderKernel
  \/ snapSliderOpacity
  \/ snapSliderScaling

SpecSnap == InitSnap /\ [][NextSnap]_vars

-----------------------------------------------------------------------------
(* The target size on every scaling factor: the window with no file chosen  *)
(* and the Scale Factor slider stepped to any value steps reach (with no    *)
(* file chosen a step only stores the value and sets the label), then the   *)
(* two files chosen.                                                        *)

StepReachable == {v \in ScalingMIN..ScalingMAX : v % ScalingNOMINAL = 0}

InitScale ==
  /\ \E prev \in StepReachable : \E action \in StepActions :
       LET pos == sliderPosition(prev, action, ScalingNOMINAL,
                                 ScalingPageStep, ScalingMIN, ScalingMAX)
       IN  /\ Fields(pos)
           /\ last = [ ev |-> "step", target |-> "scaling", raw |-> prev,
                       draws |-> 1,
                       att |-> drawDispImg(files, disparities, kernel,
                                           opacity, pos, kernel),
                       trace |-> <<"NoImages">>, before |-> None ]
  /\ SlidersConstructed
  /\ sliderDown = None
  /\ events = 0

NextScale ==
  \/ \E fileName \in Paths \cup {""} : findLFile(fileName)
  \/ \E fileName \in Paths \cup {""} : findRFile(fileName)

SpecScale == InitScale /\ [][NextScale]_vars

-----------------------------------------------------------------------------
(* The GUI with the keyboard and the mouse wheel as well.  Home and End     *)
(* trigger SliderToMinimum and SliderToMaximum, the wheel triggers          *)
(* SliderMove: Qt sets the slider's value, and the checkAction* slots       *)
(* (lines 210-211, 226-227, 243-244, 260-261) return without storing it,    *)
(* setting the label or drawing.  No handle is held, so no sliderReleased   *)
(* follows.                                                                 *)

\* values the wheel leaves in each slider, and Home and End in the Kernel one
JumpValues ==
  [ disparities |-> {40},
    kernel      |-> {KernelMIN, 10, KernelMAX},
    opacity     |-> {33},
    scaling     |-> {57} ]

sliderJumped(s, raw) ==
  /\ Idle /\ sliderDown = None
  /\ raw \in SliderRange[s]
  /\ sliderDisparities' = IF s = "disparities" THEN raw ELSE sliderDisparities
  /\ sliderKernel' = IF s = "kernel" THEN raw ELSE sliderKernel
  /\ sliderOpacity' = IF s = "opacity" THEN raw ELSE sliderOpacity
  /\ sliderScaling' = IF s = "scaling" THEN raw ELSE sliderScaling
  /\ NoDraw("jump", s, raw, "")
  /\ events' = events + 1
  /\ UNCHANGED <<params, labels, names, files, sliderDown>>

NextMove ==
  \/ Next
  \/ \E s \in Sliders : \E raw \in JumpValues[s] : sliderJumped(s, raw)

SpecMove == Init /\ [][NextMove]_vars

-----------------------------------------------------------------------------
(* Properties *)

BothChosen == Cardinality(DOMAIN files) = 2

\* C1: whenever drawDispImg invokes the disparity engine, the kernel size
\* passed to it is at most the width and at most the height of the rasters
\* passed to it, and the left and right rasters have identical dimensions.
C1_EngineWithinTarget ==
  last.att.engine # None =>
    LET e == last.att.engine[1]
    IN  /\ e.blockSize <= e.left.width
        /\ e.blockSize <= e.left.height
        /\ e.left.width = e.right.width
        /\ e.left.height = e.right.height

\* the engine has run on the two files after the Kernel handle was released
C1_Witness ==
  /\ last.ev = "snap" /\ last.target = "kernel"
  /\ last.att.engine # None
  /\ last.att.result = "rendered"

\* C2: a render attempt whose kernel size exceeds the target height or the
\* target width attempts no disparity computation, shows the warning titled
\* "IMAGE NOT UPDATED" and leaves the displayed image as it was.
C2_InfeasibleWarns ==
  (/\ last.draws = 1
   /\ last.att.dim # None
   /\ \/ kernel > last.att.dim[1].height
      \/ kernel > last.att.dim[1].width)
  => /\ last.att.engine = None
     /\ last.att.warning # None
     /\ last.att.warning[1].title = "IMAGE NOT UPDATED"
     /\ dispImg = last.before

\* C3: while fewer than two image slots are filled the pipeline stays in
\* NoImages: no image is loaded, no disparity computation is attempted, no
\* composite is displayed, no warning is shown and no event ends in a crash.
C3_NoImagesNoOp ==
  ~BothChosen =>
    /\ pipeline = "NoImages"
    /\ ~last.att.loaded
    /\ last.att.engine = None
    /\ dispImg = None
    /\ last.att.warning = None
    /\ ~crashed

\* C4: every snap event is followed by a render attempt request, and every
\* step or snap event that occurs while both image slots are filled triggers
\* a re-render attempt before the handler returns.
C4_SnapAndStepRender ==
  /\ last.ev = "snap" => last.draws = 1
  /\ (last.ev \in {"step", "snap"} /\ BothChosen) =>
       (last.draws = 1 /\ last.att.loaded)

\* C5: each stored parameter is inside its range and a valid snapped value:
\* Disparities a multiple of 16 in [16,240], KernelSize odd in [5,255],
\* Opacity a multiple of 2 in [0,100], ScalingFactor a multiple of 2 in
\* [10,100].
C5_ParametersSnapped ==
  /\ disparities \in 16..240 /\ disparities % 16 = 0
  /\ kernel \in 5..255 /\ kernel % 2 = 1
  /\ opacity \in 0..100 /\ opacity % 2 = 0
  /\ scalingFactor \in 10..100 /\ scalingFactor % 2 = 0

\* the Kernel handle was released on an even value, and the Disparities
\* handle before it off a multiple of 16
C5_Witness ==
  /\ last.ev = "snap" /\ last.target = "kernel" /\ last.raw = 10
  /\ kernel = 11
  /\ disparities = 32

\* C6: releasing the Disparities handle on a raw value d stores the multiple
\* of 16 nearest to d, inside [16,240]; 70 gives 64 and 248 gives 240.
C6_DisparitiesSnap ==
  /\ snapDispValue(70) = 64
  /\ snapDispValue(248) = 240
  /\ (last.ev = "snap" /\ last.target = "disparities") =>
       /\ disparities % 16 = 0
       /\ disparities \in 16..240
       /\ 2 * (disparities - last.raw) <= 16
       /\ 2 * (last.raw - disparities) <= 16
       /\ sliderDisparities = disparities

\* the handle was released on 70 and 64 is stored
C6_Witness ==
  /\ last.ev = "snap" /\ last.target = "disparities" /\ last.raw = 70
  /\ disparities = 64

\* C7: releasing the Kernel handle on a raw value k in [5,255] stores an odd
\* value in [5,255]: k + 1 for an even k, k for an odd k; 10 gives 11 and 255
\* stays 255.
C7_KernelSnap ==
  /\ snapKernelValue(10) = 11
  /\ snapKernelValue(255) = 255
  /\ (last.ev = "snap" /\ last.target = "kernel") =>
       /\ kernel % 2 = 1
       /\ kernel \in 5..255
       /\ last.raw % 2 = 0 => kernel = last.raw + 1
       /\ last.raw % 2 = 1 => kernel = last.raw
       /\ sliderKernel = kernel

\* the handle was released on the even value 254 and 255 is stored
C7_Witness ==
  /\ last.ev = "snap" /\ last.target = "kernel" /\ last.raw = 254
  /\ kernel = 255

\* C8: releasing the Opacity or the Scale Factor handle leaves a multiple of
\* 2 unchanged and moves any other value up by exactly 1; the stored value is
\* a multiple of 2 inside the parameter's range.
C8_OpacityScalingSnap ==
  /\ (last.ev = "snap" /\ last.target = "opacity") =>
       /\ opacity = IF last.raw % 2 = 0 THEN last.raw ELSE last.raw + 1
       /\ opacity % 2 = 0
       /\ opacity \in 0..100
  /\ (last.ev = "snap" /\ last.target = "scaling") =>
       /\ scalingFactor = IF last.raw % 2 = 0 THEN last.raw ELSE last.raw + 1
       /\ scalingFactor % 2 = 0
       /\ scalingFactor \in 10..100

\* the Opacity handle was released on 99 and 100 is stored
C8_Witness ==
  /\ last.ev = "snap" /\ last.target = "opacity" /\ last.raw = 99
  /\ opacity = 100

\* the narrower of two rasters (either, when the widths are equal)
Narrower(L, R) ==
  {r \in {L, R} : r.width <= L.width /\ r.width <= R.width}

\* C9: the target size is (floor(w * scalingFactor / 100),
\* floor(h * scalingFactor / 100)) for the raster (w, h) with the smaller
\* width, and both rasters are resized to that one size.
C9_TargetSizeIsFloor ==
  (last.draws = 1 /\ last.att.dim # None) =>
    /\ \E ref \in Narrower(imread(files[PhotoLEFT])[1],
                           imread(files[PhotoRIGHT])[1]) :
         /\ last.att.dim[1].width = (ref.width * scalingFactor) \div 100
         /\ last.att.dim[1].height = (ref.height * scalingFactor) \div 100
    /\ last.att.engine # None =>
         /\ last.att.engine[1].left = last.att.dim[1]
         /\ last.att.engine[1].right = last.att.dim[1]

DefaultParameters ==
  disparities = 64 /\ kernel = 15 /\ opacity = 50 /\ scalingFactor = 10

\* the second slot has just been filled, with two readable images of
\* distinct sizes, under the default parameters
SecondFileChosen ==
  /\ last.ev = "file"
  /\ last.trace[1] = "NoImages"
  /\ BothChosen
  /\ imread(files[PhotoLEFT]) # None
  /\ imread(files[PhotoRIGHT]) # None
  /\ imread(files[PhotoLEFT]) # imread(files[PhotoRIGHT])
  /\ DefaultParameters

RenderedAtTargetSize ==
  /\ last.trace = <<"NoImages", "Ready", "Rendered">>
  /\ pipeline = "Rendered"
  /\ dispImg # None
  /\ dispImg[1].width = last.att.dim[1].width
  /\ dispImg[1].height = last.att.dim[1].height

SlidersAtDefaults ==
  /\ sliderDisparities = 64 /\ sliderKernel = 15
  /\ sliderOpacity = 50 /\ sliderScaling = 10

C11_NeverBackToNoImages ==
  [][ /\ \A p \in DOMAIN files : p \in DOMAIN files' /\ files'[p] \in Paths
      /\ BothChosen => BothChosen'
      /\ pipeline # "NoImages" => pipeline' # "NoImages"
      /\ (pipeline' # "NoImages") => BothChosen' ]_vars

\* a filled left slot has been replaced by another path, both slots filled
C11_Witness ==
  /\ last.ev = "file" /\ last.target = "left"
  /\ last.trace[1] = "Rendered"
  /\ BothChosen
  /\ pipeline # "NoImages"
  /\ last.before # None
  /\ last.before[1].left # files[PhotoLEFT]

\* a chosen file that cv.imread cannot decode
LoadFails ==
  /\ BothChosen
  /\ imread(files[PhotoLEFT]) = None \/ imread(files[PhotoRIGHT]) = None

\* C12: every render attempt either succeeds and replaces the displayed
\* composite, or is abandoned with the displayed composite as before; when
\* loading either chosen file fails the attempt ends in an error shown to the
\* user, not in an unhandled exception, and the disparity engine is not
\* invoked.
C12_AttemptAtomic ==
  last.draws = 1 =>
    /\ \/ last.att.result = "rendered" /\ dispImg = last.att.pixmap
       \/ last.att.result # "rendered" /\ dispImg = last.before
    /\ LoadFails =>
         /\ ~crashed
         /\ last.att.warning # None
         /\ last.att.engine = None

\* C13: the rasters are resized, and the engine invoked, only after the
\* feasibility check has passed; an attempt whose target width or height is
\* below the kernel size (0 included) ends in the warning with no resize.
C13_ChecksBeforeResize ==
  (last.draws = 1 /\ last.att.dim # None) =>
    LET dim == last.att.dim[1]
        infeasible == kernel > dim.width \/ kernel > dim.height
    IN  /\ last.att.resized => ~infeasible
        /\ last.att.engine # None => ~infeasible
        /\ infeasible =>
             /\ last.att.result = "warned"
             /\ last.att.warning # None
             /\ ~last.att.resized

\* the stored parameter, the slider value and the steps of slider s
Stored(s) ==
  CASE s = "disparities" -> disparities
    [] s = "kernel"      -> kernel
    [] s = "opacity"     -> opacity
    [] s = "scaling"     -> scalingFactor

SliderValue(s) ==
  CASE s = "disparities" -> sliderDisparities
    [] s = "kernel"      -> sliderKernel
    [] s = "opacity"     -> sliderOpacity
    [] s = "scaling"     -> sliderScaling

SingleStep ==
  [ disparities |-> DisparitiesNOMINAL, kernel |-> KernelNOMINAL,
    opacity |-> OpacityNOMINAL, scaling |-> ScalingNOMINAL ]

PageStep ==
  [ disparities |-> DisparitiesPageStep, kernel |-> KernelPageStep,
    opacity |-> OpacityPageStep, scaling |-> ScalingPageStep ]

RangeMin ==
  [ disparities |-> DisparitiesNOMINAL, kernel |-> KernelMIN,
    opacity |-> OpacityMIN, scaling |-> ScalingMIN ]

RangeMax ==
  [ disparities |-> DisparitiesMAX, kernel |-> KernelMAX,
    opacity |-> OpacityMAX, scaling |-> ScalingMAX ]

\* the slider value v moved by d and clamped to the range of slider s
Stepped(s, v, d) == Bound(RangeMin[s], v + d, RangeMax[s])

FloatEquals(f, n) ==
  /\ int(f) = n
  /\ \A i \in 1..Len(f.man) : i > Len(f.man) + f.exp => f.man[i] = 0

\* C15: after every step or snap event on a parameter, that parameter's
\* label reads "<Label>: <value>" with <value> the parameter's stored value.
C15_LabelShowsStored ==
  last.ev \in {"step", "snap"} =>
    CASE last.target = "disparities" ->
           dispVal = Label(literals.DISPARITIES_LIT, disparities)
      [] last.target = "kernel" ->
           kernelVal = Label(literals.KERNEL_LIT, kernel)
      [] last.target = "opacity" ->
           /\ opacityVal.lit = literals.OPACITY_LIT
           /\ FloatEquals(opacityVal.val, opacity)
      [] last.target = "scaling" ->
           scalingVal = Label(literals.SCALING_LIT, scalingFactor)

\* C16: a file choice that fills the second slot or replaces a filled slot
\* triggers exactly one render attempt, made with the newly chosen path; no
\* step, snap or file choice triggers more than one render attempt.
C16_OneAttemptPerEvent ==
  /\ last.draws \in {0, 1}
  /\ (last.ev = "file" /\ BothChosen) =>
       /\ last.draws = 1
       /\ last.att.loaded
       /\ last.target = "left" => files[PhotoLEFT] = leftFileName
       /\ last.target = "right" => files[PhotoRIGHT] = rightFileName
       /\ last.att = drawDispImg(files, disparities, kernel, opacity,
                                 scalingFactor, sliderKernel)

\* a filled right slot has been replaced and the composite redrawn from the
\* new path
C16_Witness ==
  /\ last.ev = "file" /\ last.target = "right"
  /\ last.before # None
  /\ last.before[1].right # rightFileName
  /\ last.draws = 1
  /\ last.att.result = "rendered"
  /\ dispImg[1].right = rightFileName

\* the composite as a function of the two paths and the four stored values
Composite(fs, disp, kern, opac, sf) ==
  LET L   == imread(fs[PhotoLEFT])[1]
      R   == imread(fs[PhotoRIGHT])[1]
      ref == IF L.width < R.width THEN L ELSE R
  IN  [ width  |-> ScaleTable[ref.width, sf],
        height |-> ScaleTable[ref.height, sf],
        left   |-> fs[PhotoLEFT],
        right  |-> fs[PhotoRIGHT],
        numDisparities |-> disp,
        blockSize |-> kern,
        alpha  |-> Fraction[opac] ]

\* C17: after a successful render attempt the displayed composite is
\* determined by the two file paths and the stored Disparities, KernelSize,
\* Opacity and ScalingFactor alone, whatever events came before and wherever
\* the sliders have been left.
C17_CompositeFromInputs ==
  last.att.result = "rendered" =>
    dispImg = Some(Composite(files, disparities, kernel, opacity,
                             scalingFactor))

\* a composite rendered while the Scale Factor slider is off the stored
\* factor
C17_Witness ==
  /\ last.att.result = "rendered"
  /\ last.ev = "file"
  /\ sliderScaling # scalingFactor
  /\ dispImg # None

\* C18: at every render attempt that reaches the feasibility check, the
\* kernel value the check tests equals the stored kernel, the one handed to
\* the disparity engine, after any sequence of slider moves, steps,
\* releases and events on other parameters.
C18_TestedKernelIsStored ==
  (last.draws = 1 /\ last.att.kchk # None) =>
    /\ last.att.kchk[1] = kernel
    /\ last.att.engine # None =>
         last.att.engine[1].blockSize = last.att.kchk[1]

\* C19: a cancelled file dialog (empty path) leaves both image slots, the
\* file-name labels, the four parameters and the displayed composite
\* unchanged and triggers no render attempt.
C19_CancelChangesNothing ==
  [][ (findLFile("") \/ findRFile("")) =>
        /\ UNCHANGED <<files, names, params, dispImg>>
        /\ last'.draws = 0
        /\ last'.att.result = "none" ]_vars

\* a dialog cancelled with both slots filled and a composite on display
C19_Witness ==
  /\ last.ev = "cancel"
  /\ BothChosen
  /\ dispImg # None
  /\ last.draws = 0

\* the snap rule of slider s on the value v
SnapValue(s, v) ==
  CASE s = "disparities" -> snapDispValue(v)
    [] s = "kernel"      -> snapKernelValue(v)
    [] s = "opacity"     -> snapOpacityValue(v)
    [] s = "scaling"     -> snapScalingValue(v)

\* C20: snap is idempotent for each of the four parameters: the value a snap
\* stores is left as it is by the parameter's snap rule, and a second snap
\* of the same parameter right after the first changes no stored value.
C20_SnapIdempotent ==
  [][ \A s \in Sliders :
        (last'.ev = "snap" /\ last'.target = s /\ events' = events + 1) =>
          /\ Stored(s)' = SnapValue(s, last'.raw)
          /\ SnapValue(s, Stored(s)') = Stored(s)'
          /\ (last.ev = "snap" /\ last.target = s) =>
               /\ last'.raw = Stored(s)
               /\ params' = params ]_vars

\* the Disparities handle released twice in a row, 80 stored both times
C20_Witness ==
  /\ events = 3
  /\ last.ev = "snap" /\ last.target = "disparities"
  /\ last.raw = 80
  /\ disparities = 80
  /\ ~crashed

====
